---------------------------- MODULE Spec2Model ----------------------------
(***************************************************************************)
(* Model of the MCQ extraction pipeline of mcq-extractor-ai:               *)
(*   backend/services/pdf_reader.py     (PDFReader)                        *)
(*   backend/services/ai_processor.py   (AIProcessor)                      *)
(*   backend/services/json_formatter.py (JSONFormatter)                    *)
(*                                                                         *)
(* Python strings are sequences of one-character strings.  Python values   *)
(* of dynamic type are records [t, n, s, l]: a type tag, the integer       *)
(* value, the string value and the list items.                             *)
(***************************************************************************)
EXTENDS Integers, Sequences, FiniteSets, TLC

VARIABLES
    fmt_in,       \* format_mcq: the argument mcqs
    fmt_out,      \* format_mcq: the returned list
    fmt_pc,       \* "call" before format_mcq has run, "done" after
    api_key,      \* AIProcessor.api_key is non-empty
    text,         \* extract_mcq: the argument text
    chunks,       \* _extract_from_chunks: chunks
    chunked,      \* extract_mcq took the _extract_from_chunks branch
    chunk_index,  \* _extract_from_chunks: i, 0-based
    attempt,      \* _extract_from_text: attempts already made for the chunk
    all_mcqs,     \* _extract_from_chunks: all_mcqs
    chunk_mcqs,   \* what _extract_from_text returned for each finished chunk
    result,       \* what extract_mcq returned
    calls,        \* the calls of _call_gemini_api made so far, in order
    pc,           \* "start", "attempt" (about to call the model), "done",
                  \* "raised" (an exception left extract_mcq), "idle"
    clean_in,     \* _clean_text: its argument, a string or None
    pdf_open,     \* read_pdf: what `import pdfplumber` and pdfplumber.open do
    pdf_pages,    \* read_pdf: what page.extract_text() does for each page
    ocr_available,\* _check_ocr_available() returns True
    ocr_run,      \* pdf2image can be imported; what it and pytesseract do when run
    page_num,     \* _extract_text_by_page: pages gone through so far
    text_pages,   \* _extract_text_by_page: text_pages
    ocr_calls,    \* the calls of _extract_text_using_ocr made so far
    ocr_images,   \* the calls of pytesseract.image_to_string made so far
    pdf_out,      \* what read_pdf returned or raised
    pdf_pc,       \* "start", "pages" (in the loop over the pages), "done", "idle"
    pdf_files,    \* database: the file ids that have a metadata row
    upload_folder,\* storage: the documents saved by upload_file, by file id
    next_id,      \* the file id the next uuid4() gives
    uploaded,     \* the file ids upload_file has answered success with
    route,        \* the last request: its handler, its file id, whether answered
    reply,        \* the response to the last request
    frames        \* the calls of format_mcq and _extract_from_chunks made on one
                  \* object by two requests, each with its local variables

fmt_vars == <<fmt_in, fmt_out, fmt_pc>>
ai_vars  == <<api_key, text, chunks, chunked, chunk_index, attempt, all_mcqs,
              chunk_mcqs, result, calls, pc>>
pdf_vars == <<clean_in, pdf_open, pdf_pages, ocr_available, ocr_run, page_num, text_pages, ocr_calls,
              ocr_images, pdf_out, pdf_pc>>
route_vars == <<pdf_files, upload_folder, next_id, uploaded, route, reply, frames>>
vars     == <<fmt_vars, ai_vars, pdf_vars, route_vars>>

(***************************************************************************)
(* Bounds of the model.                                                    *)
(***************************************************************************)
MaxInput == 3
MaxTextLen == 5

(***************************************************************************)
(* Python strings.                                                         *)
(***************************************************************************)
IsSpace(c) == c \in {" ", "\n", "\t", "\r"}

LowerChar(c) ==
    CASE c = "Q" -> "q"
      [] c = "R" -> "r"
      [] c = "A" -> "a"
      [] OTHER -> c

\* str.lower()
Lower(s) == [i \in 1..Len(s) |-> LowerChar(s[i])]

RECURSIVE LStrip(_)
LStrip(s) ==
    IF s = <<>> THEN <<>>
    ELSE IF IsSpace(Head(s)) THEN LStrip(Tail(s)) ELSE s

RECURSIVE RStrip(_)
RStrip(s) ==
    IF s = <<>> THEN <<>>
    ELSE IF IsSpace(s[Len(s)]) THEN RStrip(SubSeq(s, 1, Len(s) - 1)) ELSE s

\* str.strip()
Strip(s) == RStrip(LStrip(s))

\* str.split(): the maximal runs of non-whitespace characters, in order
RECURSIVE SplitFrom(_, _, _)
SplitFrom(s, i, word) ==
    IF i > Len(s) THEN (IF word = <<>> THEN <<>> ELSE <<word>>)
    ELSE IF IsSpace(s[i])
         THEN (IF word = <<>> THEN <<>> ELSE <<word>>) \o SplitFrom(s, i + 1, <<>>)
         ELSE SplitFrom(s, i + 1, Append(word, s[i]))

Split(s) == SplitFrom(s, 1, <<>>)

\* ' '.join(words)
RECURSIVE JoinSpace(_)
JoinSpace(words) ==
    IF words = <<>> THEN <<>>
    ELSE IF Len(words) = 1 THEN words[1]
    ELSE words[1] \o <<" ">> \o JoinSpace(Tail(words))

\* text.replace('\n', ' ').replace('\r', '')
RECURSIVE ReplaceNewlines(_)
ReplaceNewlines(s) ==
    IF s = <<>> THEN <<>>
    ELSE IF Head(s) = "\n" THEN <<" ">> \o ReplaceNewlines(Tail(s))
    ELSE IF Head(s) = "\r" THEN ReplaceNewlines(Tail(s))
    ELSE <<Head(s)>> \o ReplaceNewlines(Tail(s))

(***************************************************************************)
(* Python values.                                                          *)
(***************************************************************************)
PyStr(s)   == [t |-> "str",     n |-> 0, s |-> s,    l |-> <<>>]
PyInt(n)   == [t |-> "int",     n |-> n, s |-> <<>>, l |-> <<>>]
PyList(l)  == [t |-> "list",    n |-> 0, s |-> <<>>, l |-> l]
PyNone     == [t |-> "none",    n |-> 0, s |-> <<>>, l |-> <<>>]
\* True and False: bool is a subclass of int, True == 1 and False == 0
PyBool(b)  == [t |-> "bool",    n |-> IF b THEN 1 ELSE 0, s |-> <<>>, l |-> <<>>]
PyMissing  == [t |-> "missing", n |-> 0, s |-> <<>>, l |-> <<>>]

\* isinstance(v, int)
IsInt(v) == v.t \in {"int", "bool"}

\* dict.get(key, default): the key's value, the default when the key is absent
Get(v, default) == IF v.t = "missing" THEN default ELSE v

\* bool(v) is False
Falsy(v) ==
    \/ v.t = "none"
    \/ v.t = "str" /\ v.s = <<>>
    \/ IsInt(v) /\ v.n = 0
    \/ v.t = "list" /\ v.l = <<>>

Digit(n) == <<"0", "1", "2", "3", "4", "5", "6", "7", "8", "9">>[n + 1]

\* str(v) of a string, a one-digit integer, a bool or None
ToStr(v) ==
    CASE v.t = "str" -> v.s
      [] v.t = "int" -> (IF v.n < 0 THEN <<"-", Digit(-v.n)>> ELSE <<Digit(v.n)>>)
      [] v.t = "bool" -> (IF v.n = 1 THEN <<"T", "r", "u", "e">>
                                     ELSE <<"F", "a", "l", "s", "e">>)
      [] OTHER -> <<"N", "o", "n", "e">>

\* A candidate record as the caller hands it over: a dict with the three
\* keys (each possibly absent), or a value that is no dict.
Mcq(q, o, c) == [isdict |-> TRUE, question |-> q, options |-> o, correct_answer |-> c]
NotADict     == [isdict |-> FALSE, question |-> PyMissing, options |-> PyMissing,
                 correct_answer |-> PyMissing]

(***************************************************************************)
(* JSONFormatter                                                           *)
(***************************************************************************)
\* _clean_text: raises (ok = FALSE) on a truthy value that is no string
JSONFormatter_clean_text(txt) ==
    IF Falsy(txt) THEN [ok |-> TRUE, s |-> <<>>]
    ELSE IF txt.t # "str" THEN [ok |-> FALSE, s |-> <<>>]
    ELSE [ok |-> TRUE, s |-> Strip(ReplaceNewlines(JoinSpace(Split(txt.s))))]

\* for opt in v: the items of a list, the characters of a string
Items(v) == IF v.t = "list" THEN v.l ELSE [i \in 1..Len(v.s) |-> PyStr(<<v.s[i]>>)]

\* [self._clean_text(str(opt)) for opt in options]
CleanOptions(items) ==
    [i \in 1..Len(items) |-> JSONFormatter_clean_text(PyStr(ToStr(items[i]))).s]

\* question.lower().strip()
QuestionKey_caseSensitive(question) == Strip(question)
QuestionKey(question) == Strip(Lower(question))

\* len(options) != 4 rejects
OptionsCountOk_atMost(options) == Len(options) <= 4
OptionsCountOk(options) == Len(options) = 4

\* answer not in options rejects
AnswerInOptions(answer, options) == \E i \in 1..Len(options) : options[i] = answer

\* The loop state of format_mcq.
FormatInit == [formatted_mcqs |-> <<>>, seen_questions |-> {}, next_id |-> 1]

\* `continue`: the record is skipped, the loop state is untouched
Skip_countingId(st) == [st EXCEPT !.next_id = @ + 1]
Skip(st) == st

\* The new record put in front of the list instead of at its end.
Accept_prepend(st, question, options, answer) ==
    [st EXCEPT !.formatted_mcqs = <<[id |-> st.next_id, question |-> question,
                                     options |-> options, answer |-> answer]>> \o @,
               !.next_id = @ + 1]

\* formatted_mcqs.append(formatted); next_id += 1
Accept(st, question, options, answer) ==
    [st EXCEPT !.formatted_mcqs = Append(@, [id |-> st.next_id, question |-> question,
                                             options |-> options, answer |-> answer]),
               !.next_id = @ + 1]

\* The checks of one record once question, options and answer are resolved.
FormatChecks(st, question, options, answer) ==
    LET question_key == QuestionKey(question)
        seen == [st EXCEPT !.seen_questions = @ \cup {question_key}]
    IN  IF question_key \in st.seen_questions THEN Skip(st)
        ELSE IF ~OptionsCountOk(options) THEN Skip(seen)
        ELSE IF ~AnswerInOptions(answer, options) THEN Skip(seen)
        ELSE Accept(seen, question, options, answer)

\* answer = options[correct_answer]
AnswerAt_first(options, correct_answer) == options[1]
AnswerAt(options, correct_answer) == options[correct_answer + 1]

\* One iteration of the loop over mcqs.
FormatRecord(st, mcq) ==
    IF ~mcq.isdict THEN Skip(st)                              \* mcq.get raises
    ELSE
    LET q   == JSONFormatter_clean_text(Get(mcq.question, PyStr(<<>>)))
        o   == Get(mcq.options, PyList(<<>>))
        c   == Get(mcq.correct_answer, PyNone)
    IN  IF ~q.ok THEN Skip(st)                                \* _clean_text raises
        ELSE IF o.t \notin {"list", "str"} THEN Skip(st)      \* not iterable
        ELSE
        LET options == CleanOptions(Items(o))
        IN  IF IsInt(c) /\ 0 <= c.n /\ c.n < Len(options)
            THEN FormatChecks(st, q.s, options, AnswerAt(options, c.n))
            ELSE IF c.t = "str"
            THEN FormatChecks(st, q.s, options, JSONFormatter_clean_text(c).s)
            ELSE Skip(st)

RECURSIVE FormatLoop(_, _)
FormatLoop(st, mcqs) ==
    IF mcqs = <<>> THEN st
    ELSE FormatLoop(FormatRecord(st, Head(mcqs)), Tail(mcqs))

format_mcq(mcqs) == FormatLoop(FormatInit, mcqs).formatted_mcqs

(***************************************************************************)
(* AIProcessor                                                             *)
(***************************************************************************)
\* Scaled for model checking: the source sets CHUNK_SIZE = 10000.
CHUNK_SIZE == 2
MAX_RETRIES == 3

\* text[start:end], start and end 0-based as in Python
Slice(s, start, end) ==
    SubSeq(s, start + 1, IF end > Len(s) THEN Len(s) ELSE end)

\* chunks.append(text[start:end].strip()) while start < len(text)
RECURSIVE SplitChunksFrom(_, _)
SplitChunksFrom(txt, start) ==
    IF start < Len(txt)
    THEN <<Strip(Slice(txt, start, start + CHUNK_SIZE))>>
             \o SplitChunksFrom(txt, start + CHUNK_SIZE)
    ELSE <<>>

_split_text_into_chunks(txt) == SplitChunksFrom(txt, 0)

(***************************************************************************)
(* The model's response text is a sequence of lexical tokens: "lb" is '[', *)
(* "rb" is ']', "comma" is ',', "text" is any other run of characters and  *)
(* "value" is one JSON value, carried in v.                                *)
(***************************************************************************)
Tok(k) == [k |-> k, v |-> NotADict]
Val(m) == [k |-> "value", v |-> m]

\* str.find: the 0-based index of the first token of kind k, or -1
Find(s, k) ==
    IF \E i \in 1..Len(s) : s[i].k = k
    THEN (CHOOSE i \in 1..Len(s) : s[i].k = k /\ \A j \in 1..(i - 1) : s[j].k # k) - 1
    ELSE -1

\* str.rfind: the 0-based index of the last token of kind k, or -1
RFind(s, k) ==
    IF \E i \in 1..Len(s) : s[i].k = k
    THEN (CHOOSE i \in 1..Len(s) : s[i].k = k /\ \A j \in (i + 1)..Len(s) : s[j].k # k) - 1
    ELSE -1

\* json.loads of a text that starts at a '[': an array of values separated
\* by commas, or a decoding error (ok = FALSE)
JsonLoads(js) ==
    IF Len(js) < 2 \/ js[1].k # "lb" \/ js[Len(js)].k # "rb"
    THEN [ok |-> FALSE, items |-> <<>>]
    ELSE LET inner == SubSeq(js, 2, Len(js) - 1)
         IN  IF inner = <<>> THEN [ok |-> TRUE, items |-> <<>>]
             ELSE IF /\ Len(inner) % 2 = 1
                     /\ \A i \in 1..Len(inner) :
                            inner[i].k = (IF i % 2 = 1 THEN "value" ELSE "comma")
             THEN [ok |-> TRUE,
                   items |-> [i \in 1..((Len(inner) + 1) \div 2) |-> inner[2 * i - 1].v]]
             ELSE [ok |-> FALSE, items |-> <<>>]

\* len(v) of a list or a string
PyLen(v) == IF v.t = "list" THEN Len(v.l) ELSE Len(v.s)

\* _clean_mcq returns a dict (ok = TRUE) or None
_clean_mcq(mcq) ==
    IF ~mcq.isdict THEN [ok |-> FALSE, mcq |-> NotADict]
    ELSE
    LET question == Get(mcq.question, PyStr(<<>>))
        options == Get(mcq.options, PyList(<<>>))
        correct_answer == Get(mcq.correct_answer, PyNone)
    IN  IF Falsy(question) \/ options.t # "list" \/ Len(options.l) # 4
        THEN [ok |-> FALSE, mcq |-> NotADict]
        ELSE IF ~IsInt(correct_answer) \/ correct_answer.n < 0 \/ correct_answer.n > 3
        THEN [ok |-> FALSE, mcq |-> NotADict]
        ELSE [ok |-> TRUE,
              mcq |-> Mcq(PyStr(Strip(ToStr(question))),
                          PyList([i \in 1..4 |-> PyStr(ToStr(options.l[i]))]),
                          correct_answer)]

\* [self._clean_mcq(m) for m in mcqs if self._clean_mcq(m)]
CleanAll(items) ==
    LET kept == SelectSeq(items, LAMBDA m : _clean_mcq(m).ok)
    IN  [i \in 1..Len(kept) |-> _clean_mcq(kept[i]).mcq]

\* The array as decoded, with no element cleaned or dropped.
_parse_response_unfiltered(response_text) ==
    LET start == Find(response_text, "lb")
        end == RFind(response_text, "rb") + 1
    IN  IF start = -1 THEN <<>>
        ELSE JsonLoads(Slice(response_text, start, end)).items

_parse_response(response_text) ==
    LET start == Find(response_text, "lb")
        end == RFind(response_text, "rb") + 1
    IN  IF start = -1 THEN <<>>
        ELSE LET decoded == JsonLoads(Slice(response_text, start, end))
             IN  IF decoded.ok THEN CleanAll(decoded.items) ELSE <<>>

\* _validate_mcqs; len() of a value that has no length raises inside the
\* try of _extract_from_text, which fails the attempt like a False does.
_validate_mcqs(mcqs) ==
    \A i \in 1..Len(mcqs) :
        /\ mcqs[i].isdict
        /\ LET opts == Get(mcqs[i].options, PyList(<<>>))
               correct == Get(mcqs[i].correct_answer, PyNone)
           IN  /\ opts.t \in {"list", "str"}
               /\ PyLen(opts) = 4
               /\ IsInt(correct) /\ correct.n >= 0 /\ correct.n <= 3

\* key = mcq.get('question', '').lower().strip()
MergeKey(mcq) == Strip(Lower(Get(mcq.question, PyStr(<<>>)).s))

RECURSIVE MergeLoop(_, _, _)
MergeLoop(mcqs, seen, unique) ==
    IF mcqs = <<>> THEN unique
    ELSE LET key == MergeKey(Head(mcqs))
         IN  IF key # <<>> /\ key \notin seen
             THEN MergeLoop(Tail(mcqs), seen \cup {key}, Append(unique, Head(mcqs)))
             ELSE MergeLoop(Tail(mcqs), seen, unique)

_merge_mcqs(mcqs) == MergeLoop(mcqs, {}, <<>>)

\* The three fixed records; each text is written as one unit.
MockMcq(q, a, b, c, d, n) ==
    Mcq(PyStr(<<q>>), PyList(<<PyStr(<<a>>), PyStr(<<b>>), PyStr(<<c>>), PyStr(<<d>>)>>),
        PyInt(n))

_get_mock_mcqs ==
    << MockMcq("What is the capital of France?", "London", "Paris", "Berlin", "Madrid", 1),
       MockMcq("Which planet is the Red Planet?", "Venus", "Mars", "Jupiter", "Saturn", 1),
       MockMcq("What is 2 + 2?", "3", "4", "5", "6", 1) >>

\* for attempt in range(MAX_RETRIES): no attempt is left after this many
RetriesExhausted_onePast(made) == made > MAX_RETRIES
RetriesExhausted_afterFirst(made) == made >= 1
RetriesExhausted(made) == made >= MAX_RETRIES

\* all_mcqs.extend(mcqs)
Extend_overwrite(all, mcqs) == mcqs
Extend(all, mcqs) == all \o mcqs

\* except Exception in _extract_from_text: the exception of the call is
\* logged and swallowed
ExceptionCaught == TRUE

(***************************************************************************)
(* Inputs of format_mcq.                                                   *)
(***************************************************************************)
Questions ==
    { PyStr(<<"q">>), PyStr(<<"Q", " ">>), PyStr(<<"r">>) }

FourOptions == PyList(<<PyStr(<<"a">>), PyStr(<<"b">>), PyStr(<<"c">>), PyStr(<<"d">>)>>)
TwoOptions  == PyList(<<PyStr(<<"a">>), PyStr(<<"b">>)>>)

OptionLists == { FourOptions, TwoOptions }

Answers == { PyInt(0), PyInt(3), PyStr(<<"z">>) }

Candidates == { Mcq(q, o, c) : q \in Questions, o \in OptionLists, c \in Answers }

RECURSIVE SeqsUpTo(_, _)
SeqsUpTo(S, n) ==
    IF n = 0 THEN { <<>> }
    ELSE LET shorter == SeqsUpTo(S, n - 1)
         IN  shorter \cup { Append(s, x) : s \in { t \in shorter : Len(t) = n - 1 }, x \in S }

(***************************************************************************)
(* SpecFormat: format_mcq applied to every list of at most MaxInput        *)
(* candidates.                                                             *)
(***************************************************************************)
\* No read_pdf is under way.
NoResult == [kind |-> "none", s |-> <<>>, message |-> ""]

PdfIdle ==
    /\ clean_in = PyNone /\ pdf_open = "ok" /\ pdf_pages = <<>> /\ ocr_available = FALSE
    /\ ocr_run = [pdf2image |-> FALSE, converts |-> FALSE, images |-> <<>>]
    /\ page_num = 0 /\ text_pages = <<>> /\ ocr_calls = 0 /\ ocr_images = 0
    /\ pdf_out = NoResult /\ pdf_pc = "idle"

\* No request is under way and nothing was uploaded.
NoRoute == [handler |-> "idle", file_id |-> 0, answered |-> TRUE]
NoReply == [code |-> 0, success |-> FALSE, message |-> "", mcqs |-> <<>>, file_id |-> 0]

RouteIdle ==
    /\ pdf_files = {} /\ upload_folder = <<>> /\ next_id = 1 /\ uploaded = {}
    /\ route = NoRoute /\ reply = NoReply
    /\ frames = <<>>

AiIdle ==
    /\ api_key = FALSE /\ text = <<>> /\ chunks = <<>> /\ chunked = FALSE
    /\ chunk_index = 0 /\ attempt = 0 /\ all_mcqs = <<>> /\ chunk_mcqs = <<>>
    /\ result = <<>> /\ calls = <<>> /\ pc = "idle"

FormatIdle == fmt_in = <<>> /\ fmt_out = <<>> /\ fmt_pc = "idle"

FormatStart ==
    /\ RouteIdle
    /\ fmt_in \in SeqsUpTo(Candidates, MaxInput)
    /\ fmt_out = <<>>
    /\ fmt_pc = "call"
    /\ AiIdle
    /\ PdfIdle

FormatCall ==
    /\ fmt_pc = "call"
    /\ fmt_out' = format_mcq(fmt_in)
    /\ fmt_pc' = "done"
    /\ UNCHANGED <<fmt_in, ai_vars, pdf_vars, route_vars>>

SpecFormat == FormatStart /\ [][FormatCall]_vars

(***************************************************************************)
(* Spec: extract_mcq on a text, the external model answering each call     *)
(* with an exception or with one of Responses.                             *)
(***************************************************************************)
GoodQ      == Mcq(PyStr(<<"q">>), FourOptions, PyInt(0))
GoodQAgain == Mcq(PyStr(<<"Q", " ">>), FourOptions, PyInt(3))
GoodR      == Mcq(PyStr(<<"r">>), FourOptions, PyInt(3))
BadOptions == Mcq(PyStr(<<"r">>), TwoOptions, PyInt(0))
NoQuestion == Mcq(PyStr(<<>>), FourOptions, PyInt(0))

Responses ==
    { <<Tok("text")>>,                                             \* no '['
      <<Tok("lb"), Tok("text"), Tok("rb")>>,                       \* not JSON
      <<Tok("lb"), Val(GoodQ)>>,                                   \* no ']'
      <<Tok("lb"), Tok("rb")>>,                                    \* []
      <<Tok("text"), Tok("lb"), Val(GoodQ), Tok("rb"), Tok("text")>>,
      <<Tok("lb"), Val(GoodQAgain), Tok("rb")>>,
      <<Tok("lb"), Val(GoodQ), Tok("comma"), Val(GoodQAgain), Tok("rb")>>,
      <<Tok("lb"), Val(GoodR), Tok("comma"), Val(BadOptions), Tok("comma"),
        Val(NoQuestion), Tok("comma"), Val(NotADict), Tok("rb")>> }

\* The texts 'a' * n.
Letters(n) == [i \in 1..n |-> "a"]

Init ==
    /\ RouteIdle
    /\ api_key \in BOOLEAN
    /\ text \in { Letters(n) : n \in 0..MaxTextLen }
    /\ chunks = <<>> /\ chunked = FALSE /\ chunk_index = 0 /\ attempt = 0
    /\ all_mcqs = <<>> /\ chunk_mcqs = <<>> /\ result = <<>> /\ calls = <<>>
    /\ pc = "start"
    /\ FormatIdle
    /\ PdfIdle

\* if not self.api_key
NoCredential_never == FALSE
NoCredential == ~api_key

\* extract_mcq up to the first call of the model
ExtractMcq ==
    /\ pc = "start"
    /\ IF NoCredential
       THEN /\ result' = _get_mock_mcqs
            /\ pc' = "done"
            /\ UNCHANGED <<chunks, chunked>>
       ELSE /\ IF Len(text) > CHUNK_SIZE
               THEN chunks' = _split_text_into_chunks(text) /\ chunked' = TRUE
               ELSE chunks' = <<text>> /\ chunked' = FALSE
            /\ pc' = "attempt"
            /\ UNCHANGED result
    /\ UNCHANGED <<api_key, text, chunk_index, attempt, all_mcqs, chunk_mcqs, calls, fmt_vars, pdf_vars, route_vars>>

\* _extract_from_text returns mcqs for the current chunk: the loop of
\* _extract_from_chunks goes on, or extract_mcq returns.
ChunkReturns(mcqs) ==
    /\ chunk_mcqs' = Append(chunk_mcqs, mcqs)
    /\ attempt' = 0
    /\ IF chunked
       THEN /\ all_mcqs' = Extend(all_mcqs, mcqs)
            /\ IF chunk_index + 1 < Len(chunks)
               THEN chunk_index' = chunk_index + 1 /\ pc' = "attempt" /\ UNCHANGED result
               ELSE /\ result' = _merge_mcqs(all_mcqs')
                    /\ pc' = "done"
                    /\ UNCHANGED chunk_index
       ELSE /\ result' = mcqs
            /\ pc' = "done"
            /\ UNCHANGED <<all_mcqs, chunk_index>>

\* The attempt failed: the next attempt, or return [] when none is left.
AttemptFails ==
    IF RetriesExhausted(attempt + 1)
    THEN ChunkReturns(<<>>)
    ELSE /\ attempt' = attempt + 1
         /\ UNCHANGED <<chunk_index, all_mcqs, chunk_mcqs, result, pc>>

\* _call_gemini_api raises
CallRaises ==
    /\ pc = "attempt"
    /\ calls' = Append(calls, [chunk |-> chunk_index, attempt |-> attempt + 1,
                               raised |-> TRUE, response |-> <<>>,
                               accepted |-> FALSE, mcqs |-> <<>>])
    /\ IF ExceptionCaught
       THEN AttemptFails
       ELSE /\ pc' = "raised"
            /\ UNCHANGED <<chunk_index, attempt, all_mcqs, chunk_mcqs, result>>
    /\ UNCHANGED <<api_key, text, chunks, chunked, fmt_vars, pdf_vars, route_vars>>

\* _call_gemini_api returns the parsed response; _validate_mcqs decides
CallReturns(response) ==
    /\ pc = "attempt"
    /\ LET mcqs == _parse_response(response)
           valid == _validate_mcqs(mcqs)
       IN  /\ calls' = Append(calls, [chunk |-> chunk_index, attempt |-> attempt + 1,
                                      raised |-> FALSE, response |-> response,
                                      accepted |-> valid,
                                      mcqs |-> IF valid THEN mcqs ELSE <<>>])
           /\ IF valid THEN ChunkReturns(mcqs) ELSE AttemptFails
    /\ UNCHANGED <<api_key, text, chunks, chunked, fmt_vars, pdf_vars, route_vars>>

Next ==
    \/ ExtractMcq
    \/ CallRaises
    \/ \E response \in Responses : CallReturns(response)

Spec == Init /\ [][Next]_vars

\* The external call returns or raises, and the code between two calls runs
\* to the next call.
LiveSpec == Spec /\ WF_vars(Next)

(***************************************************************************)
(* SpecChunk: _split_text_into_chunks applied to every text of at most     *)
(* MaxTextLen characters over two letters and a space that has no leading  *)
(* or trailing whitespace, as read_pdf returns it.                         *)
(***************************************************************************)
ChunkStart ==
    /\ RouteIdle
    /\ text \in { t \in SeqsUpTo({"a", "b", " "}, MaxTextLen) : Strip(t) = t }
    /\ pc = "split"
    /\ api_key = TRUE /\ chunks = <<>> /\ chunked = FALSE /\ chunk_index = 0
    /\ attempt = 0 /\ all_mcqs = <<>> /\ chunk_mcqs = <<>> /\ result = <<>>
    /\ calls = <<>>
    /\ FormatIdle
    /\ PdfIdle

SplitText ==
    /\ pc = "split"
    /\ chunks' = _split_text_into_chunks(text)
    /\ pc' = "chunks"
    /\ UNCHANGED <<api_key, text, chunked, chunk_index, attempt, all_mcqs, chunk_mcqs,
                   result, calls, fmt_vars, pdf_vars, route_vars>>

SpecChunk == ChunkStart /\ [][SplitText]_vars

(***************************************************************************)
(* SpecMerge: _merge_mcqs and format_mcq, each applied to the same list of *)
(* at most MaxInput records as _clean_mcq returns them (question trimmed   *)
(* at both ends only, 4 options, an index).                                *)
(***************************************************************************)
Cleaned(q, n) == Mcq(PyStr(q), FourOptions, PyInt(n))

MergeInputs ==
    { Cleaned(<<"q">>, 0),
      Cleaned(<<"Q">>, 3),
      Cleaned(<<"q", " ", "r">>, 0),
      Cleaned(<<"q", " ", " ", "r">>, 3),
      Cleaned(<<>>, 0) }                       \* _clean_mcq of the question ' '

MergeStart ==
    /\ RouteIdle
    /\ all_mcqs \in SeqsUpTo(MergeInputs, MaxInput)
    /\ fmt_in = all_mcqs
    /\ fmt_out = <<>> /\ fmt_pc = "call"
    /\ pc = "merge"
    /\ api_key = TRUE /\ text = <<>> /\ chunks = <<>> /\ chunked = TRUE
    /\ chunk_index = 0 /\ attempt = 0 /\ chunk_mcqs = <<>> /\ result = <<>>
    /\ calls = <<>>
    /\ PdfIdle

\* return self._merge_mcqs(all_mcqs)
MergeCall ==
    /\ pc = "merge"
    /\ result' = _merge_mcqs(all_mcqs)
    /\ pc' = "done"
    /\ UNCHANGED <<api_key, text, chunks, chunked, chunk_index, attempt, all_mcqs,
                   chunk_mcqs, calls, fmt_vars, pdf_vars, route_vars>>

MergeNext == MergeCall \/ FormatCall

SpecMerge == MergeStart /\ [][MergeNext]_vars

(***************************************************************************)
(* SpecValidate: format_mcq applied, as validate_mcq applies it, to every  *)
(* list of at most MaxInput records of any shape, and applied once more to *)
(* the list it returned.                                                   *)
(***************************************************************************)
Q(c) == PyStr(<<c>>)

DupOptions == PyList(<<Q("a"), Q("a"), Q("c"), Q("d")>>)

Records ==
    { Mcq(Q("q"), FourOptions, PyInt(3)),
      Mcq(Q("r"), FourOptions, PyStr(<<" ", "a">>)),
      Mcq(Q("s"), FourOptions, PyInt(4)),
      Mcq(Q("s"), FourOptions, PyInt(-1)),
      Mcq(Q("s"), FourOptions, PyNone),
      Mcq(Q("s"), FourOptions, PyMissing),
      Mcq(Q("s"), FourOptions, PyBool(TRUE)),
      Mcq(Q("t"), DupOptions, PyInt(0)),
      Mcq(Q("q"), TwoOptions, PyInt(3)),
      Mcq(Q("q"), PyNone, PyInt(0)),
      Mcq(Q("q"), PyStr(<<"a", "b", "c", "d">>), PyInt(0)),
      Mcq(PyInt(5), FourOptions, PyInt(0)),
      Mcq(PyMissing, FourOptions, PyInt(0)),
      NotADict }

\* A dict format_mcq returned, handed to format_mcq: it has the keys id,
\* question, options and answer, and no key correct_answer.
AsInput(r) ==
    Mcq(PyStr(r.question), PyList([i \in 1..Len(r.options) |-> PyStr(r.options[i])]),
        PyMissing)

ValidateStart ==
    /\ RouteIdle
    /\ fmt_in \in SeqsUpTo(Records, MaxInput)
    /\ fmt_out = <<>>
    /\ fmt_pc = "call"
    /\ AiIdle
    /\ PdfIdle

\* formatter.format_mcq(mcqs) on the list the previous call returned
FormatAgain ==
    /\ fmt_pc = "done"
    /\ fmt_out' = format_mcq([i \in 1..Len(fmt_out) |-> AsInput(fmt_out[i])])
    /\ fmt_pc' = "again"
    /\ UNCHANGED <<fmt_in, ai_vars, pdf_vars, route_vars>>

\* invalid_count = len(mcqs) - len(formatted_mcqs)
invalid_count == Len(fmt_in) - Len(fmt_out)

ValidateNext == FormatCall \/ FormatAgain

SpecValidate == ValidateStart /\ [][ValidateNext]_vars

(***************************************************************************)
(* PDFReader                                                               *)
(***************************************************************************)
MaxPages == 3

\* re.sub(c + '+', c, text): every run of the character c becomes one c
RECURSIVE CollapseRuns(_, _)
CollapseRuns(s, c) ==
    IF Len(s) < 2 THEN s
    ELSE IF s[1] = c /\ s[2] = c THEN CollapseRuns(Tail(s), c)
    ELSE <<s[1]>> \o CollapseRuns(Tail(s), c)

\* text.split('\n'), line being the part of the current line already read
RECURSIVE SplitLines(_, _)
SplitLines(s, line) ==
    IF s = <<>> THEN <<line>>
    ELSE IF Head(s) = "\n" THEN <<line>> \o SplitLines(Tail(s), <<>>)
    ELSE SplitLines(Tail(s), Append(line, Head(s)))

\* '\n'.join(lines)
RECURSIVE JoinNewline(_)
JoinNewline(lines) ==
    IF lines = <<>> THEN <<>>
    ELSE IF Len(lines) = 1 THEN lines[1]
    ELSE lines[1] \o <<"\n">> \o JoinNewline(Tail(lines))

\* PDFReader._clean_text
PDFReader_clean_text(txt) ==
    IF txt = <<>> THEN <<>>
    ELSE LET split == SplitLines(CollapseRuns(CollapseRuns(txt, " "), "\n"), <<>>)
             lines == [i \in 1..Len(split) |-> Strip(split[i])]
         IN  JoinNewline(SelectSeq(lines, LAMBDA line : line # <<>>))

\* What page.extract_text() or pytesseract.image_to_string(image) does: it
\* returns a string, returns None, or raises.
PageText(s) == [k |-> "text", s |-> s]
PageNone    == [k |-> "none", s |-> <<>>]
PageRaises  == [k |-> "raises", s |-> <<>>]

\* if text and text.strip()
YieldsText_anyString(page) == page.k = "text"
YieldsText(page) == page.k = "text" /\ Strip(page.s) # <<>>

\* The strings of the pages that yield text, in page order.
TextsOf(pages) ==
    LET kept == SelectSeq(pages, YieldsText)
    IN  [i \in 1..Len(kept) |-> kept[i].s]

\* _extract_text_using_ocr: '' when OCR is not available, when the import
\* of pdf2image, the conversion to images or a recognition raises, or when
\* no image has text
OcrText(available, run) ==
    IF ~available \/ ~run.pdf2image \/ ~run.converts THEN <<>>
    ELSE IF \E i \in 1..Len(run.images) : run.images[i].k = "raises" THEN <<>>
    ELSE JoinNewline(TextsOf(run.images))

\* The calls of image_to_string one call of _extract_text_using_ocr makes.
OcrImageCalls(available, run) ==
    IF ~available \/ ~run.pdf2image \/ ~run.converts THEN 0
    ELSE IF \E i \in 1..Len(run.images) : run.images[i].k = "raises"
    THEN CHOOSE i \in 1..Len(run.images) :
             /\ run.images[i].k = "raises"
             /\ \A j \in 1..(i - 1) : run.images[j].k # "raises"
    ELSE Len(run.images)

Returned(s) == [kind |-> "text", s |-> s, message |-> ""]
PDFNoTextError(message) == [kind |-> "PDFNoTextError", s |-> <<>>, message |-> message]
PDFReadError(message) == [kind |-> "PDFReadError", s |-> <<>>, message |-> message]
FileNotFoundError == [kind |-> "FileNotFoundError", s |-> <<>>, message |-> "No such file"]

\* `import pdfplumber` raises ImportError, or pdfplumber.open returns the
\* document, raises FileNotFoundError or raises another exception.
OpenOutcomes == {"ok", "ImportError", "FileNotFoundError", "Exception"}

(***************************************************************************)
(* SpecPdf: read_pdf on a path that cannot be opened, or on a document of  *)
(* at most MaxPages pages.                                                 *)
(***************************************************************************)
PageOutcomes ==
    { PageText(<<"a">>), PageText(<<" ", "b", "\n">>), PageText(<<" ">>),
      PageNone, PageRaises }

OcrRuns ==
    { [pdf2image |-> FALSE, converts |-> FALSE, images |-> <<>>],
      [pdf2image |-> TRUE, converts |-> FALSE, images |-> <<>>],
      [pdf2image |-> TRUE, converts |-> TRUE, images |-> <<PageText(<<"x">>)>>],
      [pdf2image |-> TRUE, converts |-> TRUE, images |-> <<PageText(<<" ">>), PageNone>>],
      [pdf2image |-> TRUE, converts |-> TRUE,
       images |-> <<PageText(<<"x", " ">>), PageText(<<"y">>)>>],
      [pdf2image |-> TRUE, converts |-> TRUE,
       images |-> <<PageText(<<"x">>), PageRaises>>] }

ReadPdfStart ==
    /\ RouteIdle
    /\ clean_in = PyNone
    /\ pdf_open \in OpenOutcomes
    /\ pdf_pages \in IF pdf_open = "ok" THEN SeqsUpTo(PageOutcomes, MaxPages) ELSE {<<>>}
    /\ ocr_available \in BOOLEAN
    /\ ocr_run \in OcrRuns
    /\ page_num = 0 /\ text_pages = <<>> /\ ocr_calls = 0 /\ ocr_images = 0
    /\ pdf_out = NoResult
    /\ pdf_pc = "start"
    /\ AiIdle
    /\ FormatIdle

\* What leaves read_pdf when the document cannot be opened: the handlers of
\* ImportError, of (PDFNoTextError, FileNotFoundError) and of Exception.
OpenFailure(outcome) ==
    IF outcome = "ImportError" THEN PDFReadError("PDF processing library not available")
    ELSE IF outcome = "FileNotFoundError" THEN FileNotFoundError
    ELSE PDFReadError("Failed to read PDF")

\* read_pdf up to the loop over the pages
ReadPdf ==
    /\ pdf_pc = "start"
    /\ IF pdf_open = "ok"
       THEN pdf_pc' = "pages" /\ UNCHANGED pdf_out
       ELSE pdf_pc' = "done" /\ pdf_out' = OpenFailure(pdf_open)
    /\ UNCHANGED <<clean_in, pdf_open, pdf_pages, ocr_available, ocr_run, page_num, text_pages,
                   ocr_calls, ocr_images, fmt_vars, ai_vars, route_vars>>

\* One iteration of the loop of _extract_text_by_page.
ExtractPage ==
    /\ pdf_pc = "pages"
    /\ page_num < Len(pdf_pages)
    /\ page_num' = page_num + 1
    /\ text_pages' = IF YieldsText(pdf_pages[page_num + 1])
                     THEN Append(text_pages, pdf_pages[page_num + 1].s)
                     ELSE text_pages
    /\ UNCHANGED <<clean_in, pdf_open, pdf_pages, ocr_available, ocr_run, ocr_calls, ocr_images,
                   pdf_out, pdf_pc, fmt_vars, ai_vars, route_vars>>

\* _read_pdf_from_path once _extract_text_by_page has returned
ReadPdfFinish ==
    /\ pdf_pc = "pages"
    /\ page_num = Len(pdf_pages)
    /\ IF text_pages # <<>>
       THEN /\ pdf_out' = Returned(PDFReader_clean_text(JoinNewline(text_pages)))
            /\ UNCHANGED <<ocr_calls, ocr_images>>
       ELSE /\ ocr_calls' = ocr_calls + 1
            /\ ocr_images' = ocr_images + OcrImageCalls(ocr_available, ocr_run)
            /\ LET ocr_text == OcrText(ocr_available, ocr_run)
               IN  pdf_out' =
                       IF ocr_text # <<>> THEN Returned(PDFReader_clean_text(ocr_text))
                       ELSE IF ~ocr_available
                       THEN PDFNoTextError("OCR support is not installed")
                       ELSE PDFNoTextError("OCR extraction failed")
    /\ pdf_pc' = "done"
    /\ UNCHANGED <<clean_in, pdf_open, pdf_pages, ocr_available, ocr_run, page_num, text_pages,
                   fmt_vars, ai_vars, route_vars>>

PdfNext == ReadPdf \/ ExtractPage \/ ReadPdfFinish

SpecPdf == ReadPdfStart /\ [][PdfNext]_vars

(***************************************************************************)
(* SpecClean: _clean_text on a string of at most MaxTextLen characters or  *)
(* on None, and then on its own result.                                    *)
(***************************************************************************)
CleanChars == {"a", " ", "\t", "\n"}

\* _clean_text called with a value: `if not text: return ""`
CleanValue(v) == IF Falsy(v) THEN <<>> ELSE PDFReader_clean_text(v.s)

CleanStart ==
    /\ RouteIdle
    /\ clean_in \in {PyNone} \cup {PyStr(s) : s \in SeqsUpTo(CleanChars, MaxTextLen)}
    /\ pdf_open = "ok" /\ pdf_pages = <<>> /\ ocr_available = FALSE
    /\ ocr_run = [pdf2image |-> FALSE, converts |-> FALSE, images |-> <<>>]
    /\ page_num = 0 /\ text_pages = <<>> /\ ocr_calls = 0 /\ ocr_images = 0
    /\ pdf_out = NoResult
    /\ pdf_pc = "clean"
    /\ AiIdle
    /\ FormatIdle

CleanCall ==
    /\ pdf_pc = "clean"
    /\ pdf_out' = Returned(CleanValue(clean_in))
    /\ pdf_pc' = "cleaned"
    /\ UNCHANGED <<clean_in, pdf_open, pdf_pages, ocr_available, ocr_run, page_num,
                   text_pages, ocr_calls, ocr_images, fmt_vars, ai_vars, route_vars>>

\* _clean_text called with what it returned
CleanAgain ==
    /\ pdf_pc = "cleaned"
    /\ pdf_out' = Returned(CleanValue(PyStr(pdf_out.s)))
    /\ pdf_pc' = "again"
    /\ UNCHANGED <<clean_in, pdf_open, pdf_pages, ocr_available, ocr_run, page_num,
                   text_pages, ocr_calls, ocr_images, fmt_vars, ai_vars, route_vars>>

CleanNext == CleanCall \/ CleanAgain

SpecClean == CleanStart /\ [][CleanNext]_vars

(***************************************************************************)
(* SpecInspect: is_scanned and get_page_count on a path that cannot be     *)
(* opened, or on a document of at most MaxScanPages pages.                 *)
(***************************************************************************)
MaxScanPages == 4

\* pdf.pages[:3]
FIRST_PAGES == 3

ReturnedBool(b) == [kind |-> "bool", b |-> b]
ReturnedInt(n) == [kind |-> "int", n |-> n]

\* pages[:n]
FirstOf_all(pages, n) == pages
FirstOf(pages, n) == SubSeq(pages, 1, IF Len(pages) < n THEN Len(pages) ELSE n)

\* is_scanned, the loop `for page in pdf.pages[:3]`: a page with text ends it
\* with False, a page whose extract_text raises ends it in the handler with
\* True; after it the second loop and the last line both give True.
RECURSIVE ScanLoop(_)
ScanLoop(pages) ==
    IF pages = <<>> THEN TRUE
    ELSE IF Head(pages).k = "raises" THEN TRUE
    ELSE IF YieldsText(Head(pages)) THEN FALSE
    ELSE ScanLoop(Tail(pages))

is_scanned(outcome, pages) ==
    IF outcome # "ok" THEN ReturnedBool(TRUE)
    ELSE ReturnedBool(ScanLoop(FirstOf(pages, FIRST_PAGES)))

\* get_page_count
get_page_count_unguarded(outcome, pages) ==
    IF outcome # "ok" THEN OpenFailure(outcome) ELSE ReturnedInt(Len(pages))
get_page_count(outcome, pages) ==
    IF outcome # "ok" THEN ReturnedInt(0) ELSE ReturnedInt(Len(pages))

InspectStart ==
    /\ RouteIdle
    /\ pdf_open \in OpenOutcomes
    /\ pdf_pages \in IF pdf_open = "ok" THEN SeqsUpTo(PageOutcomes, MaxScanPages) ELSE {<<>>}
    /\ clean_in = PyNone /\ ocr_available = FALSE
    /\ ocr_run = [pdf2image |-> FALSE, converts |-> FALSE, images |-> <<>>]
    /\ page_num = 0 /\ text_pages = <<>> /\ ocr_calls = 0 /\ ocr_images = 0
    /\ pdf_out = NoResult
    /\ pdf_pc = "inspect"
    /\ AiIdle
    /\ FormatIdle

IsScanned ==
    /\ pdf_pc = "inspect"
    /\ pdf_out' = is_scanned(pdf_open, pdf_pages)
    /\ pdf_pc' = "scanned"
    /\ UNCHANGED <<clean_in, pdf_open, pdf_pages, ocr_available, ocr_run, page_num,
                   text_pages, ocr_calls, ocr_images, fmt_vars, ai_vars, route_vars>>

GetPageCount ==
    /\ pdf_pc = "inspect"
    /\ pdf_out' = get_page_count(pdf_open, pdf_pages)
    /\ pdf_pc' = "counted"
    /\ UNCHANGED <<clean_in, pdf_open, pdf_pages, ocr_available, ocr_run, page_num,
                   text_pages, ocr_calls, ocr_images, fmt_vars, ai_vars, route_vars>>

InspectNext == IsScanned \/ GetPageCount

SpecInspect == InspectStart /\ [][InspectNext]_vars

(***************************************************************************)
(* SpecRoute: the server answering requests one after the other:           *)
(* upload_file, extract_mcq on an uploaded file and extract_text_from_file *)
(* on a file id, with at most MaxUploads file ids.                         *)
(***************************************************************************)
MaxUploads == 1

\* An uploaded file: what pdfplumber.open and the pages' extract_text do.
RouteDocs ==
    { [open |-> "ok", pages |-> <<PageText(<<"a">>)>>],
      [open |-> "ok", pages |-> <<PageNone>>],
      [open |-> "ok", pages |-> <<PageRaises, PageText(<<" ", "b", "\n">>)>>],
      [open |-> "Exception", pages |-> <<>>] }

\* The request carries no file that is read.
NoDoc == [open |-> "Exception", pages |-> <<>>]
NoOcr == [available |-> FALSE, run |-> [pdf2image |-> FALSE, converts |-> FALSE, images |-> <<>>]]

\* The recognition during one request: not installed, failing, or reading x.
RouteOcr ==
    { [available |-> FALSE, run |-> [pdf2image |-> FALSE, converts |-> FALSE, images |-> <<>>]],
      [available |-> TRUE, run |-> [pdf2image |-> TRUE, converts |-> FALSE, images |-> <<>>]],
      [available |-> TRUE,
       run |-> [pdf2image |-> TRUE, converts |-> TRUE, images |-> <<PageText(<<"x">>)>>]] }

\* What the external model answers during a request.
RouteResponses ==
    { <<Tok("lb"), Tok("text"), Tok("rb")>>,
      <<Tok("lb"), Val(GoodQ), Tok("comma"), Val(GoodQAgain), Tok("rb")>> }

\* upload_file: the first check that fails, or "ok"
UploadChecks ==
    { "ok", "No file provided", "No file selected", "Invalid file extension",
      "Invalid MIME type", "File too large" }

\* extract_mcq: the first check that fails, or "ok"
ExtractChecks == { "ok", "No file provided", "No file selected", "Invalid file type" }

\* jsonify(...), status of upload_file
UploadReply(code, message, id) ==
    [code |-> code, success |-> code = 200, message |-> message, mcqs |-> <<>>,
     file_id |-> id]

\* raise ValidationError(message), answered by handle_api_error
ValidationError_sameText(message) ==
    [code |-> 400, success |-> FALSE, message |-> "Failed to extract MCQs", mcqs |-> <<>>,
     file_id |-> 0]
ValidationError(message) ==
    [code |-> 400, success |-> FALSE, message |-> message, mcqs |-> <<>>, file_id |-> 0]

\* jsonify({'success': True, ...}), 200 of the two extraction handlers
ExtractReply(mcqs, id) ==
    [code |-> 200, success |-> TRUE, message |-> "MCQs extracted successfully",
     mcqs |-> mcqs, file_id |-> id]

RouteStart ==
    /\ RouteIdle
    /\ api_key \in BOOLEAN
    /\ text = <<>> /\ chunks = <<>> /\ chunked = FALSE /\ chunk_index = 0 /\ attempt = 0
    /\ all_mcqs = <<>> /\ chunk_mcqs = <<>> /\ result = <<>> /\ calls = <<>> /\ pc = "idle"
    /\ PdfIdle
    /\ FormatIdle

\* upload_file: check is the outcome of the validation, saved tells whether
\* save_upload returns, stored whether save_pdf_metadata returns: when it
\* raises, upload_file logs the exception and goes on.
UploadFile(check, doc, saved, stored) ==
    /\ route.answered
    /\ next_id <= MaxUploads
    /\ route' = [handler |-> "upload", file_id |-> 0, answered |-> TRUE]
    /\ IF check # "ok"
       THEN /\ reply' = UploadReply(400, check, 0)
            /\ UNCHANGED <<pdf_files, upload_folder, next_id, uploaded>>
       ELSE /\ next_id' = next_id + 1
            /\ IF ~saved
               THEN /\ reply' = UploadReply(500, "Failed to upload file", 0)
                    /\ UNCHANGED <<pdf_files, upload_folder, uploaded>>
               ELSE /\ upload_folder' =
                           [f \in DOMAIN upload_folder \cup {next_id} |->
                               IF f = next_id THEN doc ELSE upload_folder[f]]
                    /\ pdf_files' =
                           IF stored THEN pdf_files \cup {next_id} ELSE pdf_files
                    /\ reply' = UploadReply(200, "File uploaded successfully", next_id)
                    /\ uploaded' = uploaded \cup {next_id}
    /\ UNCHANGED <<fmt_vars, ai_vars, pdf_vars, frames>>

\* A request starts with fresh PDFReader, AIProcessor and JSONFormatter.
NewRequest ==
    /\ text' = <<>> /\ chunks' = <<>> /\ chunked' = FALSE /\ chunk_index' = 0
    /\ attempt' = 0 /\ all_mcqs' = <<>> /\ chunk_mcqs' = <<>> /\ result' = <<>>
    /\ calls' = <<>> /\ pc' = "idle"
    /\ fmt_in' = <<>> /\ fmt_out' = <<>> /\ fmt_pc' = "idle"
    /\ page_num' = 0 /\ text_pages' = <<>> /\ ocr_calls' = 0 /\ ocr_images' = 0
    /\ UNCHANGED <<api_key, clean_in, pdf_files, upload_folder, next_id, uploaded, frames>>

\* read_pdf is called on doc
OpenDoc(doc, ocr) ==
    /\ pdf_open' = doc.open /\ pdf_pages' = doc.pages
    /\ ocr_available' = ocr.available /\ ocr_run' = ocr.run
    /\ pdf_out' = NoResult /\ pdf_pc' = "start"

\* read_pdf_from_storage raises before read_pdf is called
NotOpened(error) ==
    /\ pdf_out' = error /\ pdf_pc' = "done"
    /\ UNCHANGED <<pdf_open, pdf_pages, ocr_available, ocr_run>>

\* extract_mcq of routes/extract.py up to the call of read_pdf
ExtractUpload(check, doc, ocr) ==
    /\ route.answered
    /\ NewRequest
    /\ IF check # "ok"
       THEN /\ reply' = ValidationError(check)
            /\ route' = [handler |-> "mcq", file_id |-> 0, answered |-> TRUE]
            /\ pdf_out' = NoResult /\ pdf_pc' = "idle"
            /\ UNCHANGED <<pdf_open, pdf_pages, ocr_available, ocr_run>>
       ELSE /\ reply' = NoReply
            /\ route' = [handler |-> "mcq", file_id |-> 0, answered |-> FALSE]
            /\ OpenDoc(doc, ocr)

\* extract_text_from_file and read_pdf_from_storage up to the call of read_pdf
ExtractFromFile(id, ocr) ==
    /\ route.answered
    /\ NewRequest
    /\ reply' = NoReply
    /\ route' = [handler |-> "file_id", file_id |-> id, answered |-> FALSE]
    /\ IF id \notin pdf_files
       THEN NotOpened(PDFReadError("PDF file not found in database"))
       ELSE IF id \notin DOMAIN upload_folder
       THEN NotOpened(PDFReadError("PDF file not found on disk"))
       ELSE OpenDoc(upload_folder[id], ocr)

\* read_pdf has returned or raised: the handlers of PDFNoTextError, of
\* PDFReadError and of Exception, or the call of extract_mcq
RouteRead ==
    /\ ~route.answered
    /\ pdf_pc = "done" /\ pc = "idle"
    /\ IF pdf_out.kind = "text"
       THEN /\ text' = pdf_out.s
            /\ pc' = "start"
            /\ UNCHANGED <<route, reply>>
       ELSE /\ reply' = IF pdf_out.kind \in {"PDFNoTextError", "PDFReadError"}
                        THEN ValidationError(pdf_out.message)
                        ELSE ValidationError("Failed to extract MCQs")
            /\ route' = [route EXCEPT !.answered = TRUE]
            /\ UNCHANGED <<text, pc>>
    /\ UNCHANGED <<api_key, chunks, chunked, chunk_index, attempt, all_mcqs, chunk_mcqs,
                   result, calls, fmt_vars, pdf_vars, pdf_files, upload_folder, next_id,
                   uploaded, frames>>

\* extract_mcq has returned or raised: format_mcq and the success response,
\* or the handler of Exception
RouteReply ==
    /\ ~route.answered
    /\ pc \in {"done", "raised"}
    /\ IF pc = "done"
       THEN /\ fmt_in' = result
            /\ fmt_out' = format_mcq(result)
            /\ fmt_pc' = "done"
            /\ reply' = ExtractReply(fmt_out', route.file_id)
       ELSE /\ reply' = ValidationError("Failed to extract MCQs")
            /\ UNCHANGED fmt_vars
    /\ route' = [route EXCEPT !.answered = TRUE]
    /\ UNCHANGED <<ai_vars, pdf_vars, pdf_files, upload_folder, next_id, uploaded, frames>>

RouteNext ==
    \/ \E check \in UploadChecks \ {"ok"}, doc \in {NoDoc} : UploadFile(check, doc, FALSE, FALSE)
    \/ \E doc \in RouteDocs, saved \in BOOLEAN, stored \in BOOLEAN :
           UploadFile("ok", doc, saved, stored)
    \/ \E check \in ExtractChecks \ {"ok"}, doc \in {NoDoc}, ocr \in {NoOcr} :
           ExtractUpload(check, doc, ocr)
    \/ \E doc \in RouteDocs, ocr \in RouteOcr : ExtractUpload("ok", doc, ocr)
    \/ \E id \in 1..MaxUploads, ocr \in RouteOcr : ExtractFromFile(id, ocr)
    \/ ReadPdf
    \/ ExtractPage
    \/ ReadPdfFinish
    \/ RouteRead
    \/ ExtractMcq
    \/ CallRaises
    \/ \E response \in RouteResponses : CallReturns(response)
    \/ RouteReply

SpecRoute == RouteStart /\ [][RouteNext]_vars

(***************************************************************************)
(* SpecCalls: two requests call format_mcq or _extract_from_chunks on the  *)
(* same JSONFormatter and AIProcessor, one after the other or interleaved  *)
(* at every iteration of their loops; the inputs have at most MaxCallLen   *)
(* elements.                                                               *)
(***************************************************************************)
MaxCallLen == 2

\* The records given to format_mcq
CallRecords == { GoodQ, GoodQAgain }

\* The lists _extract_from_text returns for a chunk
CallChunks == { <<GoodQ>>, <<GoodQAgain, GoodR>> }

\* A call that has not run yet.
Called(kind, input) ==
    [kind |-> kind, input |-> input, i |-> 0, pc |-> "called", locals |-> <<>>, out |-> <<>>]

CallsStart ==
    /\ frames \in [1..2 ->
           { Called("format_mcq", in) : in \in SeqsUpTo(CallRecords, MaxCallLen) }
           \cup { Called("_extract_from_chunks", in) : in \in SeqsUpTo(CallChunks, MaxCallLen) }]
    /\ pdf_files = {} /\ upload_folder = <<>> /\ next_id = 1 /\ uploaded = {}
    /\ route = NoRoute /\ reply = NoReply
    /\ AiIdle
    /\ PdfIdle
    /\ FormatIdle

\* The variables a call starts with: formatted_mcqs = [], seen_questions =
\* set() and next_id = 1 of format_mcq, all_mcqs = [] of _extract_from_chunks,
\* all created in the call.
EnterLocals_ofObject(fs, c) ==
    LET other == fs[3 - c]
    IN  IF other.kind = fs[c].kind /\ other.pc # "called" THEN other.locals
        ELSE IF fs[c].kind = "format_mcq" THEN FormatInit ELSE <<>>
EnterLocals(fs, c) == IF fs[c].kind = "format_mcq" THEN FormatInit ELSE <<>>

\* The call is entered.
Enter(c) ==
    /\ frames[c].pc = "called"
    /\ frames' = [frames EXCEPT ![c].pc = "running", ![c].locals = EnterLocals(frames, c)]
    /\ UNCHANGED <<fmt_vars, ai_vars, pdf_vars, pdf_files, upload_folder, next_id, uploaded,
                   route, reply>>

\* One iteration of `for mcq in mcqs` of format_mcq, or of
\* `for i, chunk in enumerate(chunks)` of _extract_from_chunks.
Iterate(c) ==
    /\ frames[c].pc = "running"
    /\ frames[c].i < Len(frames[c].input)
    /\ LET item == frames[c].input[frames[c].i + 1]
       IN  frames' = [frames EXCEPT
               ![c].i = @ + 1,
               ![c].locals = IF frames[c].kind = "format_mcq" THEN FormatRecord(@, item)
                             ELSE Extend(@, item)]
    /\ UNCHANGED <<fmt_vars, ai_vars, pdf_vars, pdf_files, upload_folder, next_id, uploaded,
                   route, reply>>

\* return formatted_mcqs, or return self._merge_mcqs(all_mcqs)
Return(c) ==
    /\ frames[c].pc = "running"
    /\ frames[c].i = Len(frames[c].input)
    /\ frames' = [frames EXCEPT
           ![c].pc = "returned",
           ![c].out = IF frames[c].kind = "format_mcq" THEN frames[c].locals.formatted_mcqs
                      ELSE _merge_mcqs(frames[c].locals)]
    /\ UNCHANGED <<fmt_vars, ai_vars, pdf_vars, pdf_files, upload_folder, next_id, uploaded,
                   route, reply>>

CallsNext == \E c \in 1..2 : Enter(c) \/ Iterate(c) \/ Return(c)

SpecCalls == CallsStart /\ [][CallsNext]_vars

(***************************************************************************)
(* Claims about format_mcq (SpecFormat).                                   *)
(***************************************************************************)
\* The spec's candidate record: a question string, exactly 4 options and an
\* integer correct_answer in 0..3.
IsCandidate(m) ==
    /\ m.isdict
    /\ m.question.t = "str"
    /\ m.options.t = "list" /\ Len(m.options.l) = 4
    /\ m.correct_answer.t = "int" /\ m.correct_answer.n \in 0..3

\* Two question texts differ only by case or leading/trailing whitespace.
SameUpToCaseAndTrim(q1, q2) == Lower(Strip(q1.s)) = Lower(Strip(q2.s))

\* The normalized record the candidate m gives, apart from its id.
BuiltFrom(r, m) ==
    /\ r.question = JSONFormatter_clean_text(m.question).s
    /\ r.options = CleanOptions(m.options.l)
    /\ r.answer = CleanOptions(m.options.l)[m.correct_answer.n + 1]

\* C1: every record format_mcq returns has exactly 4 options, and its answer
\* is equal to one of them.
C1_FourOptionsAnswerMember ==
    fmt_pc = "done" =>
        \A i \in 1..Len(fmt_out) :
            /\ Len(fmt_out[i].options) = 4
            /\ \E j \in 1..4 : fmt_out[i].options[j] = fmt_out[i].answer

\* C1 witness: a call that accepted one record and rejected one with 2
\* options and one whose answer is none of its options.
C1_Witness ==
    /\ fmt_pc = "done"
    /\ Len(fmt_out) = 1
    /\ \E i \in 1..Len(fmt_in) : Len(fmt_in[i].options.l) = 2
    /\ \E i \in 1..Len(fmt_in) :
           /\ Len(fmt_in[i].options.l) = 4
           /\ fmt_in[i].correct_answer = PyStr(<<"z">>)

\* C2: the ids of the returned records are 1..N in output order, whatever
\* was rejected in between.
C2_IdsAreOneToN ==
    fmt_pc = "done" => \A i \in 1..Len(fmt_out) : fmt_out[i].id = i

\* C2 witness: three inputs, the second rejected, the first and third accepted
\* with ids 1 and 2.
C2_Witness ==
    /\ fmt_pc = "done"
    /\ Len(fmt_in) = 3
    /\ Len(fmt_in[2].options.l) = 2
    /\ Len(fmt_out) = 2
    /\ BuiltFrom(fmt_out[1], fmt_in[1])
    /\ fmt_out[2].question = JSONFormatter_clean_text(fmt_in[3].question).s

\* C10: of two candidate records whose questions differ only by case or
\* leading/trailing whitespace (none before them carrying that question),
\* exactly one record is returned, built from the first of the two.
C10_DuplicateKeepsFirst ==
    fmt_pc = "done" =>
        \A i \in 1..Len(fmt_in) : \A j \in (i + 1)..Len(fmt_in) :
            ( /\ IsCandidate(fmt_in[i]) /\ IsCandidate(fmt_in[j])
              /\ SameUpToCaseAndTrim(fmt_in[i].question, fmt_in[j].question)
              /\ \A k \in 1..(i - 1) :
                     fmt_in[k].isdict /\ fmt_in[k].question.t = "str"
                     => ~SameUpToCaseAndTrim(fmt_in[k].question, fmt_in[i].question) )
            => LET hits == { n \in 1..Len(fmt_out) :
                               SameUpToCaseAndTrim(PyStr(fmt_out[n].question),
                                                   fmt_in[i].question) }
               IN  /\ Cardinality(hits) = 1
                   /\ \A n \in hits : BuiltFrom(fmt_out[n], fmt_in[i])

\* C10 witness: two candidates "q" and "Q " with different answers, one
\* record returned.
C10_Witness ==
    /\ fmt_pc = "done"
    /\ Len(fmt_in) = 2
    /\ IsCandidate(fmt_in[1]) /\ IsCandidate(fmt_in[2])
    /\ fmt_in[1].question = PyStr(<<"q">>)
    /\ fmt_in[2].question = PyStr(<<"Q", " ">>)
    /\ fmt_in[1].correct_answer # fmt_in[2].correct_answer
    /\ Len(fmt_out) = 1

(***************************************************************************)
(* Claims about extract_mcq (Spec, LiveSpec).                              *)
(***************************************************************************)
\* The calls made for the chunk of index i.
CallsOf(i) == { n \in 1..Len(calls) : calls[n].chunk = i }

\* All MAX_RETRIES attempts of the chunk of index i were made and failed.
ChunkFailed(i) ==
    /\ Cardinality(CallsOf(i)) = MAX_RETRIES
    /\ \A n \in CallsOf(i) : ~calls[n].accepted

\* The JSON array between the first '[' and the last ']' of a response, when
\* there is a '[' and the text decodes.
ArrayOf(response) ==
    IF Find(response, "lb") = -1 THEN [ok |-> FALSE, items |-> <<>>]
    ELSE JsonLoads(Slice(response, Find(response, "lb"), RFind(response, "rb") + 1))

\* An object with exactly 4 options and an integer correct_answer in 0..3.
MeetsStructure(e) ==
    /\ e.isdict
    /\ e.options.t = "list" /\ Len(e.options.l) = 4
    /\ e.correct_answer.t = "int" /\ e.correct_answer.n \in 0..3

\* ... and a non-empty question.
WellFormedElement(e) ==
    MeetsStructure(e) /\ e.question.t = "str" /\ e.question.s # <<>>

\* C3 as claimed: an attempt whose decoded array has an element that is not
\* an object with exactly 4 options and an integer correct_answer in 0..3 is
\* rejected as a whole.
C3_WholeAttemptRejected ==
    \A n \in 1..Len(calls) :
        LET array == ArrayOf(calls[n].response)
        IN  ( /\ ~calls[n].raised
              /\ array.ok
              /\ \E k \in 1..Len(array.items) : ~MeetsStructure(array.items[k]) )
            => ~calls[n].accepted

\* C3 as amended: an attempt whose decoded array has at least one well-formed
\* element (an object with a non-empty question, exactly 4 options and an
\* integer correct_answer in 0..3) is accepted and ends the chunk; it returns
\* the well-formed elements, in order, and drops only the other elements.
C3_BadElementsDropped ==
    \A n \in 1..Len(calls) :
        LET array == ArrayOf(calls[n].response)
            good == SelectSeq(array.items, WellFormedElement)
        IN  (~calls[n].raised /\ array.ok /\ good # <<>>)
            => /\ calls[n].accepted
               /\ \A m \in (n + 1)..Len(calls) : calls[m].chunk # calls[n].chunk
               /\ Len(calls[n].mcqs) = Len(good)
               /\ \A k \in 1..Len(good) :
                      /\ calls[n].mcqs[k].question = PyStr(Strip(good[k].question.s))
                      /\ calls[n].mcqs[k].correct_answer = good[k].correct_answer
                      /\ Len(calls[n].mcqs[k].options.l) = 4

\* C3 witness: the array [GoodR, BadOptions, NoQuestion, NotADict] was
\* accepted at the first attempt and gave the one record of GoodR.
C3_Witness ==
    \E n \in 1..Len(calls) :
        /\ Len(ArrayOf(calls[n].response).items) = 4
        /\ calls[n].attempt = 1
        /\ calls[n].accepted
        /\ Len(calls[n].mcqs) = 1
        /\ calls[n].mcqs[1].question = PyStr(<<"r">>)

\* What C4 says of every state: at most MAX_RETRIES calls per chunk, no call
\* for a chunk after its accepted attempt, and a finished chunk returned the
\* result of its accepted attempt, or [] after MAX_RETRIES failed attempts.
C4_Safety ==
    /\ \A i \in 0..Len(chunks) : Cardinality(CallsOf(i)) <= MAX_RETRIES
    /\ \A n \in 1..Len(calls) :
           /\ calls[n].attempt = Cardinality({ m \in CallsOf(calls[n].chunk) : m <= n })
           /\ calls[n].accepted => \A m \in (n + 1)..Len(calls) : calls[m].chunk # calls[n].chunk
    /\ \A i \in 1..Len(chunk_mcqs) :
           IF \E n \in CallsOf(i - 1) : calls[n].accepted
           THEN \A n \in CallsOf(i - 1) : calls[n].accepted => chunk_mcqs[i] = calls[n].mcqs
           ELSE ChunkFailed(i - 1) /\ chunk_mcqs[i] = <<>>

\* C4: _extract_from_text makes at most MAX_RETRIES calls for a chunk, stops
\* at the first attempt that passes validation and returns its result,
\* returns [] when all attempts fail, and extract_mcq always terminates.
C4_BoundedRetries == []C4_Safety /\ <>(pc = "done")

\* C4 witness: extract_mcq returned after one chunk used all its attempts
\* and another was accepted at its second attempt.
C4_Witness ==
    /\ pc = "done"
    /\ \E i \in 1..Len(chunk_mcqs) : ChunkFailed(i - 1) /\ chunk_mcqs[i] = <<>>
    /\ \E n \in 1..Len(calls) :
           calls[n].accepted /\ calls[n].attempt = 2 /\ calls[n].mcqs # <<>>

\* C5 as claimed: an attempt whose response has no '[' or does not decode
\* counts as failed (it is not the attempt _extract_from_text returns on).
C5_MalformedIsRetried ==
    \A n \in 1..Len(calls) :
        (~calls[n].raised /\ ~ArrayOf(calls[n].response).ok) => ~calls[n].accepted

\* The dedup key of a candidate.
KeyOf(c) == Lower(Strip(c.question.s))

\* Candidate k of chunk i is the first, in chunk order, to carry its key.
FirstWithKey(i, k) ==
    \A i2 \in 1..i : \A k2 \in 1..Len(chunk_mcqs[i2]) :
        (i2 < i \/ k2 < k) => KeyOf(chunk_mcqs[i2][k2]) # KeyOf(chunk_mcqs[i][k])

InResult(c) == \E m \in 1..Len(result) : result[m] = c

\* C6 as claimed: no error leaves extract_mcq, and in a chunked extraction
\* with a failed chunk, that chunk contributes nothing and every candidate
\* accepted for another chunk is in the returned list.
C6_OthersAllPresent ==
    /\ pc # "raised"
    /\ (pc = "done" /\ chunked /\ \E i \in 1..Len(chunk_mcqs) : ChunkFailed(i - 1))
       => \A i \in 1..Len(chunk_mcqs) :
              /\ ChunkFailed(i - 1) => chunk_mcqs[i] = <<>>
              /\ \A k \in 1..Len(chunk_mcqs[i]) : InResult(chunk_mcqs[i][k])

\* C6 as amended: no error leaves extract_mcq, a failed chunk contributes
\* nothing, and every candidate accepted for another chunk is in the returned
\* list unless its key is empty or an earlier candidate carries the same key;
\* nothing else is in the returned list.
C6_PartialResults ==
    /\ pc # "raised"
    /\ (pc = "done" /\ chunked)
       => /\ \A i \in 1..Len(chunk_mcqs) :
                 /\ ChunkFailed(i - 1) => chunk_mcqs[i] = <<>>
                 /\ \A k \in 1..Len(chunk_mcqs[i]) :
                        (KeyOf(chunk_mcqs[i][k]) # <<>> /\ FirstWithKey(i, k))
                        => InResult(chunk_mcqs[i][k])
          /\ \A m \in 1..Len(result) :
                 \E i \in 1..Len(chunk_mcqs) : \E k \in 1..Len(chunk_mcqs[i]) :
                     result[m] = chunk_mcqs[i][k]

\* C6 witness: three chunks, the middle one failed, the first gave "q" and
\* the third gave "r"; both are returned.
C6_Witness ==
    /\ pc = "done" /\ chunked
    /\ Len(chunk_mcqs) = 3
    /\ ChunkFailed(1)
    /\ Len(chunk_mcqs[1]) = 1 /\ Len(chunk_mcqs[3]) = 1
    /\ Len(result) = 2
    /\ result[1] = chunk_mcqs[1][1]
    /\ result[2] = chunk_mcqs[3][1]

\* C9: calls are made in chunk order; a call for the next chunk comes only
\* after the current chunk was accepted or used its MAX_RETRIES attempts, and
\* no chunk is called again once a later chunk was started.
C9_ChunkOrder ==
    /\ Len(calls) >= 1 => calls[1].chunk = 0 /\ calls[1].attempt = 1
    /\ \A n \in 2..Len(calls) :
           \/ /\ calls[n].chunk = calls[n - 1].chunk
              /\ ~calls[n - 1].accepted
              /\ calls[n].attempt = calls[n - 1].attempt + 1
           \/ /\ calls[n].chunk = calls[n - 1].chunk + 1
              /\ calls[n].attempt = 1
              /\ (calls[n - 1].accepted \/ calls[n - 1].attempt = MAX_RETRIES)
    /\ \A m \in 1..Len(calls) : \A n \in m..Len(calls) : calls[m].chunk <= calls[n].chunk

\* C9 witness: three chunks were called; the second was retried before the
\* third was started.
C9_Witness ==
    /\ pc = "done" /\ chunked
    /\ Len(chunks) = 3
    /\ Cardinality(CallsOf(0)) = 1
    /\ Cardinality(CallsOf(1)) = 3
    /\ Cardinality(CallsOf(2)) = 2

(***************************************************************************)
(* Claims about _split_text_into_chunks (SpecChunk).                       *)
(***************************************************************************)
RECURSIVE Concat(_)
Concat(ss) == IF ss = <<>> THEN <<>> ELSE Head(ss) \o Concat(Tail(ss))

Min(a, b) == IF a < b THEN a ELSE b

\* C7 as claimed: the chunks, concatenated in order, are the text.
C7_RoundTrip == pc = "chunks" => Concat(chunks) = text

\* C8 as claimed: a text of length L > 0 gives ceil(L / CHUNK_SIZE) chunks,
\* the consecutive windows of CHUNK_SIZE characters of the text, the last one
\* holding the rest; no chunk is empty or longer than CHUNK_SIZE.
C8_FixedWindows ==
    (pc = "chunks" /\ Len(text) > 0) =>
        LET count == (Len(text) + CHUNK_SIZE - 1) \div CHUNK_SIZE
        IN  /\ Len(chunks) = count
            /\ \A i \in 1..Len(chunks) :
                   /\ chunks[i] = SubSeq(text, (i - 1) * CHUNK_SIZE + 1,
                                         Min(i * CHUNK_SIZE, Len(text)))
                   /\ Len(chunks[i]) >= 1 /\ Len(chunks[i]) <= CHUNK_SIZE
                   /\ i < count => Len(chunks[i]) = CHUNK_SIZE
            /\ Len(chunks) = count
               => Len(chunks[count]) = Len(text) - CHUNK_SIZE * (count - 1)

(***************************************************************************)
(* Claims about _merge_mcqs (SpecMerge).                                   *)
(***************************************************************************)
\* The deduplication key of the data model: the question text with its
\* whitespace normalized (runs collapsed to one space, ends trimmed),
\* lower-cased.
DedupKey(m) == Lower(JoinSpace(Split(m.question.s)))

\* The items of s at the indices in I, in order.
RECURSIVE PickFrom(_, _, _)
PickFrom(s, I, i) ==
    IF i > Len(s) THEN <<>>
    ELSE (IF i \in I THEN <<s[i]>> ELSE <<>>) \o PickFrom(s, I, i + 1)

\* C11 as claimed: _merge_mcqs returns the subsequence of its input made of
\* the first record carrying each dedup key present in the input, so that no
\* two returned records share a dedup key.
C11_MergeKeepsFirstOfEachKey ==
    (pc = "done" /\ chunked) =>
        LET firsts == { i \in 1..Len(all_mcqs) :
                          \A j \in 1..(i - 1) : DedupKey(all_mcqs[j]) # DedupKey(all_mcqs[i]) }
        IN  result = PickFrom(all_mcqs, firsts, 1)

\* C12 as claimed: two records with non-empty questions are treated as
\* duplicates by format_mcq (one record returned for the two) exactly when
\* _merge_mcqs treats them as duplicates.
C12_SameDuplicates ==
    ( /\ pc = "done" /\ fmt_pc = "done"
      /\ Len(all_mcqs) = 2
      /\ \A i \in 1..2 : DedupKey(all_mcqs[i]) # <<>> )
    => (Len(fmt_out) = 1 <=> Len(result) = 1)

(***************************************************************************)
(* Claims about the merge stage of extract_mcq (Spec).                     *)
(***************************************************************************)
\* C13 as claimed: with a credential configured, no two candidates of the
\* list extract_mcq returns share a dedup key, whatever the length of the
\* text (one chunk or several).
C13_ResultIsMerged ==
    (api_key /\ pc = "done") =>
        \A m \in 1..Len(result) : \A n \in (m + 1)..Len(result) :
            DedupKey(result[m]) # DedupKey(result[n])

(***************************************************************************)
(* Claims about format_mcq on records of any shape (SpecValidate).         *)
(***************************************************************************)
\* What format_mcq returns for the first i records of the input.
Prefix(i) == format_mcq(SubSeq(fmt_in, 1, i))

\* Record i of the input was accepted: it added one record to the output,
\* at the place PlaceOf(i).
AcceptedAt(i) == Len(Prefix(i)) = Len(Prefix(i - 1)) + 1
PlaceOf(i) == Len(Prefix(i))

\* The options of a record as format_mcq walks them.
OptionsOf(m) == IF m.options.t \in {"list", "str"} THEN Items(m.options) ELSE <<>>

\* A text or an option after cleaning.
CleanedStr(v) == Strip(JoinSpace(Split(ToStr(v))))

C15_AnswerIsOneOption ==
    fmt_pc = "done" =>
        \A k \in 1..Len(fmt_out) :
            Cardinality({ j \in 1..Len(fmt_out[k].options) :
                            fmt_out[k].options[j] = fmt_out[k].answer }) = 1

\* The question of a record after cleaning ('' for a value that is no string).
CleanedQuestion(m) == IF m.question.t = "str" THEN CleanedStr(m.question) ELSE <<>>

\* C16: the discarded count validate_mcq reports, input count minus output
\* count, is the number of input records format_mcq rejected and is not
\* negative; every output record comes from one accepted input record, and
\* the accepted records are returned in the order of their sources.
C16_DiscardedCount ==
    fmt_pc = "done" =>
        LET place == [i \in 0..Len(fmt_in) |-> PlaceOf(i)]
            accepted == { i \in 1..Len(fmt_in) : place[i] = place[i - 1] + 1 }
        IN  /\ invalid_count = Cardinality((1..Len(fmt_in)) \ accepted)
            /\ invalid_count >= 0
            /\ \A i \in accepted :
                   /\ place[i] \in 1..Len(fmt_out)
                   /\ fmt_out[place[i]].question = CleanedQuestion(fmt_in[i])
                   /\ fmt_out[place[i]].options =
                          [j \in 1..Len(OptionsOf(fmt_in[i])) |->
                              CleanedStr(OptionsOf(fmt_in[i])[j])]
            /\ \A i \in accepted : \A j \in accepted : i < j => place[i] < place[j]
            /\ \A k \in 1..Len(fmt_out) : \E i \in accepted : place[i] = k

\* C16 witness: three records, the second with only 2 options; the first and
\* the third were returned, in that order, and 1 record is reported discarded.
C16_Witness ==
    /\ fmt_pc = "done"
    /\ Len(fmt_in) = 3
    /\ fmt_in[1].question = Q("r")
    /\ fmt_in[2].options = TwoOptions
    /\ fmt_in[3].question = Q("q")
    /\ invalid_count = 1
    /\ Len(fmt_out) = 2
    /\ fmt_out[1].question = <<"r">>
    /\ fmt_out[2].question = <<"q">>

\* A record the claim calls malformed: no dict, or a question, options or
\* correct_answer that is missing or of the wrong type.
Malformed(m) ==
    \/ ~m.isdict
    \/ m.question.t # "str"
    \/ m.options.t # "list"
    \/ ~(IsInt(m.correct_answer) \/ m.correct_answer.t = "str")

\* A well-formed record whose key no earlier record carries.
GoodAndFresh(i) ==
    /\ ~Malformed(fmt_in[i])
    /\ Len(fmt_in[i].options.l) = 4
    /\ IsInt(fmt_in[i].correct_answer) /\ fmt_in[i].correct_answer.n \in 0..3
    /\ \A j \in 1..(i - 1) :
           fmt_in[j].question.t = "str" => DedupKey(fmt_in[j]) # DedupKey(fmt_in[i])

\* C17 as claimed: no malformed record makes format_mcq raise (every call on
\* a list returns); each malformed record is skipped, and the records after
\* it are still processed.
C17_MalformedSkipped ==
    fmt_pc = "done" =>
        \A i \in 1..Len(fmt_in) :
            /\ Malformed(fmt_in[i]) => ~AcceptedAt(i)
            /\ GoodAndFresh(i) => AcceptedAt(i)

\* C18 as claimed: format_mcq applied to the list format_mcq returned gives
\* that list again.
C18_Idempotent == fmt_pc = "again" => fmt_out = format_mcq(fmt_in)

(***************************************************************************)
(* Claims about extract_mcq without a credential (Spec).                   *)
(***************************************************************************)
\* The demo record with question q, options a..d and the index 1.
IsDemo(r, q, a, b, c, d) ==
    /\ r.question = PyStr(<<q>>)
    /\ r.options = PyList(<<PyStr(<<a>>), PyStr(<<b>>), PyStr(<<c>>), PyStr(<<d>>)>>)
    /\ r.correct_answer = PyInt(1)

\* C19: without a credential extract_mcq never calls the external model,
\* never chunks or retries, and returns the same 3 demo records for every
\* text.
C19_MockWithoutCredential ==
    ~api_key =>
        /\ calls = <<>> /\ chunks = <<>> /\ ~chunked /\ attempt = 0 /\ pc # "attempt"
        /\ pc = "done" =>
               /\ Len(result) = 3
               /\ IsDemo(result[1], "What is the capital of France?",
                         "London", "Paris", "Berlin", "Madrid")
               /\ IsDemo(result[2], "Which planet is the Red Planet?",
                         "Venus", "Mars", "Jupiter", "Saturn")
               /\ IsDemo(result[3], "What is 2 + 2?", "3", "4", "5", "6")

\* C19 witness: extract_mcq returned 3 records for a text longer than
\* CHUNK_SIZE with no credential and no call made.
C19_Witness ==
    /\ ~api_key
    /\ pc = "done"
    /\ Len(text) > CHUNK_SIZE
    /\ Len(result) = 3
    /\ calls = <<>>

(***************************************************************************)
(* Claims about read_pdf (SpecPdf).                                        *)
(***************************************************************************)
\* The page has text in its text layer: extract_text returned a string with
\* a character that is no whitespace.
HasTextLayer(page) ==
    page.k = "text" /\ \E i \in 1..Len(page.s) : ~IsSpace(page.s[i])

\* The text-layer strings of the pages that have one, in page order.
RECURSIVE LayerTexts(_)
LayerTexts(pages) ==
    IF pages = <<>> THEN <<>>
    ELSE (IF HasTextLayer(Head(pages)) THEN <<Head(pages).s>> ELSE <<>>)
             \o LayerTexts(Tail(pages))

\* C20: read_pdf calls the image-based extraction exactly when no page has a
\* text layer, and only after every page was tried; when a page has one, the
\* pages without text and the pages whose extraction raises are skipped, no
\* recognition is run, and read_pdf returns the cleaned join of the other
\* pages' texts in page order.
C20_OcrIffNoTextLayer ==
    /\ pdf_pc \in {"start", "pages"} => ocr_calls = 0 /\ ocr_images = 0
    /\ (pdf_pc = "done" /\ pdf_open = "ok") =>
           /\ ocr_calls = (IF LayerTexts(pdf_pages) = <<>> THEN 1 ELSE 0)
           /\ LayerTexts(pdf_pages) # <<>> =>
                  /\ ocr_images = 0
                  /\ pdf_out.kind = "text"
                  /\ pdf_out.s = PDFReader_clean_text(JoinNewline(LayerTexts(pdf_pages)))

\* C20 witness: of three pages the first gave "a", the second raised and the
\* third gave " b\n"; read_pdf returned "a\nb" and ran no recognition.
C20_Witness ==
    /\ pdf_pc = "done"
    /\ pdf_pages = <<PageText(<<"a">>), PageRaises, PageText(<<" ", "b", "\n">>)>>
    /\ pdf_out = Returned(<<"a", "\n", "b">>)
    /\ ocr_calls = 0

\* The two explanations of PDFNoTextError.
NotInstalled == "OCR support is not installed"
OcrFailed == "OCR extraction failed"

\* C21 as claimed: when no page has a text layer and recognition gives no
\* text, read_pdf raises PDFNoTextError; the explanation is the "not
\* installed" one exactly when a dependency of recognition (pytesseract with
\* its tesseract program, or pdf2image) is missing, and the "failed" one
\* exactly when recognition was available and was run.
C21_ExplanationTellsWhy ==
    ( /\ pdf_pc = "done" /\ pdf_open = "ok"
      /\ LayerTexts(pdf_pages) = <<>>
      /\ pdf_out.kind # "text" )
    => /\ pdf_out.kind = "PDFNoTextError"
       /\ pdf_out.message \in {NotInstalled, OcrFailed}
       /\ pdf_out.message = NotInstalled <=> (~ocr_available \/ ~ocr_run.pdf2image)
       /\ pdf_out.message = OcrFailed <=> (ocr_available /\ ocr_run.pdf2image)

\* C22 as claimed: read_pdf fails only with PDFReadError or PDFNoTextError,
\* and an input that cannot be opened or parsed as a PDF, a path to a
\* nonexistent file included, fails with PDFReadError.
C22_OnlyTwoErrors ==
    pdf_pc = "done" =>
        /\ pdf_out.kind \in {"text", "PDFReadError", "PDFNoTextError"}
        /\ pdf_open # "ok" => pdf_out.kind = "PDFReadError"

(***************************************************************************)
(* Claims about _clean_text (SpecClean).                                   *)
(***************************************************************************)
Horizontal(c) == c \in {" ", "\t"}

\* s is cleaned text: every horizontal whitespace character is a space
\* between two other characters of a line, and no line is empty.
IsCleaned(s) ==
    /\ \A i \in 1..Len(s) :
          Horizontal(s[i]) =>
              /\ s[i] = " "
              /\ 1 < i /\ i < Len(s)
              /\ ~Horizontal(s[i - 1]) /\ s[i - 1] # "\n"
              /\ ~Horizontal(s[i + 1]) /\ s[i + 1] # "\n"
    /\ \A i \in 1..Len(s) :
          s[i] = "\n" => 1 < i /\ i < Len(s) /\ s[i + 1] # "\n"

\* C23 as claimed: _clean_text returns text in which every run of spaces and
\* tabs is one space, no line is blank or has whitespace at either end and
\* the lines are joined by single newlines; cleaning the result again
\* changes nothing; empty or missing input gives ''.
C23_CleanText ==
    /\ pdf_pc = "cleaned" =>
           /\ IsCleaned(pdf_out.s)
           /\ Falsy(clean_in) => pdf_out.s = <<>>
    /\ pdf_pc = "again" => pdf_out.s = CleanValue(clean_in)

(***************************************************************************)
(* Claims about is_scanned and get_page_count (SpecInspect).               *)
(***************************************************************************)
\* Page i is one of the first three and is_scanned reads it without an
\* error: no page up to it raises.
ReadWithoutError(i) ==
    /\ i \in 1..Len(pdf_pages) /\ i <= 3
    /\ \A j \in 1..i : pdf_pages[j].k # "raises"

\* C24: is_scanned returns false exactly when one of the first 3 pages, read
\* without an error, has non-blank text, whatever the later pages are; when
\* the document cannot be opened or a page raises before such a page is
\* found, it returns true.
C24_FirstThreePages ==
    pdf_pc = "scanned" =>
        /\ pdf_out.kind = "bool"
        /\ pdf_out.b = FALSE <=>
               /\ pdf_open = "ok"
               /\ \E i \in 1..Len(pdf_pages) :
                      ReadWithoutError(i) /\ HasTextLayer(pdf_pages[i])

\* A document whose only page with text is the fourth was found scanned.
C24_Witness ==
    /\ pdf_pc = "scanned" /\ pdf_open = "ok"
    /\ Len(pdf_pages) = 4 /\ HasTextLayer(pdf_pages[4])
    /\ \A i \in 1..3 : ~HasTextLayer(pdf_pages[i]) /\ pdf_pages[i].k # "raises"
    /\ pdf_out = ReturnedBool(TRUE)

\* C25: get_page_count raises nothing: it returns the number of pages of a
\* document that opens, and 0 when the library is missing or the file is
\* missing, unreadable or corrupt.
C25_PageCountNeverRaises ==
    pdf_pc = "counted" =>
        /\ pdf_out.kind = "int"
        /\ pdf_open = "ok" => pdf_out.n = Len(pdf_pages)
        /\ pdf_open # "ok" => pdf_out.n = 0

\* The page count of a nonexistent file was asked for and 0 came back.
C25_Witness ==
    pdf_pc = "counted" /\ pdf_open = "FileNotFoundError" /\ pdf_out = ReturnedInt(0)

(***************************************************************************)
(* Claims about the routes (SpecRoute).                                    *)
(***************************************************************************)
\* The request under way or just answered is an extraction whose read_pdf
\* or read_pdf_from_storage raised PDFReadError or PDFNoTextError.
ReadFailed ==
    /\ route.handler \in {"mcq", "file_id"}
    /\ pdf_pc = "done"
    /\ pdf_out.kind \in {"PDFReadError", "PDFNoTextError"}

\* The request was answered.
Answered == route.answered

\* The texts with which a PDFNoTextError is reported.
NoTextReports == {NotInstalled, OcrFailed}

\* C26: when read_pdf or read_pdf_from_storage raises PDFReadError or
\* PDFNoTextError in an extraction request, the external model is not
\* called, and the response is no success, carries no MCQs and tells by its
\* text which of the two was raised.
C26_ReadFailureReported ==
    ReadFailed =>
        /\ calls = <<>> /\ pc = "idle"
        /\ Answered =>
               /\ ~reply.success /\ reply.code = 400 /\ reply.mcqs = <<>>
               /\ reply.message \in NoTextReports <=> pdf_out.kind = "PDFNoTextError"

\* An extraction by file id of a stored scanned file was answered with the
\* explanation that recognition is not installed.
C26_Witness ==
    /\ ReadFailed /\ Answered
    /\ api_key
    /\ pdf_out.kind = "PDFNoTextError"
    /\ reply = ValidationError(NotInstalled)

\* C30 as claimed: every file id upload_file has answered success with has
\* its metadata row, and no extraction by such an id is answered with 'PDF
\* file not found in database'.
C30_UploadedIsStored ==
    /\ uploaded \subseteq pdf_files
    /\ ( /\ route.handler = "file_id" /\ route.answered
         /\ route.file_id \in uploaded )
       => reply.message # "PDF file not found in database"

(***************************************************************************)
(* Claims about calls on the same object (SpecCalls).                      *)
(***************************************************************************)
\* What the call returns when it is the only one.
Alone(frame) ==
    IF frame.kind = "format_mcq" THEN format_mcq(frame.input)
    ELSE _merge_mcqs(Concat(frame.input))

\* C27: a call of format_mcq or of _extract_from_chunks that runs before,
\* after or interleaved with another call on the same object returns what
\* it returns alone: the ids of format_mcq start at 1 again and no question
\* is dropped as a duplicate of a question of the other call.
C27_CallsAreIsolated ==
    \A c \in 1..2 :
        frames[c].pc = "returned" =>
            /\ frames[c].out = Alone(frames[c])
            /\ frames[c].kind = "format_mcq" =>
                   \A k \in 1..Len(frames[c].out) : frames[c].out[k].id = k

\* While the first call of format_mcq is in its loop and has seen a
\* question, the second call has returned a record with the same question
\* key as id 1.
C27_Witness ==
    /\ frames[1].kind = "format_mcq" /\ frames[1].pc = "running" /\ frames[1].i = 1
    /\ frames[1].locals.seen_questions = {<<"q">>}
    /\ frames[2].kind = "format_mcq" /\ frames[2].pc = "returned"
    /\ Len(frames[2].out) = 1 /\ frames[2].out[1].id = 1
    /\ QuestionKey(frames[2].out[1].question) = <<"q">>

(***************************************************************************)
(* Claims about _validate_mcqs (Spec) and about the seen keys of           *)
(* format_mcq (SpecFormat).                                                *)
(***************************************************************************)
\* C28 as claimed: _validate_mcqs rejects the empty list: an attempt whose
\* call returns zero candidates is not the attempt _extract_from_text
\* returns on.
C28_EmptyIsRejected ==
    \A n \in 1..Len(calls) :
        (~calls[n].raised /\ _parse_response(calls[n].response) = <<>>)
            => ~calls[n].accepted

\* The candidate passes every check of format_mcq: four options and an
\* answer that resolves to one of them.
FullyValid(m) ==
    /\ IsCandidate(m)
    /\ \E k \in 1..4 :
           CleanOptions(m.options.l)[k] = CleanOptions(m.options.l)[m.correct_answer.n + 1]

\* C29 as claimed: only an accepted record marks its key as seen, so every
\* key carried by a fully valid input record is the key of an output record,
\* also when an earlier record with that key was rejected for its option
\* count or its answer.
C29_ValidKeyIsKept ==
    fmt_pc = "done" =>
        \A i \in 1..Len(fmt_in) :
            FullyValid(fmt_in[i]) =>
                \E k \in 1..Len(fmt_out) :
                    Lower(Strip(fmt_out[k].question)) = Lower(Strip(fmt_in[i].question.s))

=============================================================================
